---- MODULE Spec2Model ----
(***************************************************************************)
(* Model of the Alembic revision c6b6fb03f1c5 ("init") of llvm-flow-api:   *)
(* upgrade() and downgrade() as sequences of DDL operations run against a  *)
(* relational catalog, the migration runner that calls them, and the row   *)
(* operations the created schema admits (foreign keys with ON DELETE       *)
(* CASCADE, NOT NULL columns, unique indexes).                             *)
(***************************************************************************)
EXTENDS Integers, Sequences, FiniteSets, TLC

VARIABLES
    tables,     \* catalog: table name -> definition (columns, pk, fks)
    indexes,    \* catalog: index name -> definition (table, cols, unique)
    rows,       \* table name -> set of rows (records), for existing tables
    pc,         \* "idle" | "upgrade" | "downgrade": the function being run
    i,          \* position in the running function: next operation to issue
    raised,     \* the running function raised at operation i
    version,    \* runner's version table: "base" | "head"
    outcome,    \* outcome of the last run: "none" | "ok" | "failed"
    lastRun,    \* the function the runner called last: "none"|"upgrade"|"downgrade"
    saved,      \* database as it was when the last run began
    origin,     \* names of the objects that existed when upgrade() last began
    txnDDL,     \* the engine rolls DDL back with its transaction
    createLog,  \* objects created by the last upgrade() run, in order
    dropLog,    \* objects dropped by the last downgrade() run, in order
    last        \* the last row operation: arguments, result, rows removed

vars == <<tables, indexes, rows, pc, i, raised, version, outcome, lastRun,
          saved, origin, txnDDL, createLog, dropLog, last>>

(* ---------------------------------------------------------------- bounds *)

\* identifiers rows take ids 1..MaxIdent
MaxIdent == 2
\* files rows and passes rows take ids 1..MaxChild
MaxChild == 1
\* user rows take ids 1..MaxUser
MaxUser == 2

(* ------------------------------------------------------------- values *)

\* A nullable column value is a set: empty for SQL NULL, a singleton otherwise.
Null == {}
Some(v) == {v}

\* Values offered for username and email.
Names == {"a", "b"}
\* Values offered for the text columns Identifier, content, transformpass.
Texts == {"x"}

Nullable(S) == {Null} \cup {Some(v) : v \in S}

(* ------------------------------------------------ the revision's content *)

Col(n, ty, nullable) == [name |-> n, type |-> ty, nullable |-> nullable]

FK(c, rt, rc, od) == [col |-> c, reftable |-> rt, refcol |-> rc, ondelete |-> od]

\* The identifiers table with its text column declared nullable=True.
IdentifiersTableNullableText ==
    [cols |-> {Col("id", "Integer", FALSE),
               Col("Identifier", "Text", TRUE)},
     pk   |-> {"id"},
     fks  |-> {}]

\* op.create_table('identifiers', ...)
IdentifiersTable ==
    [cols |-> {Col("id", "Integer", FALSE),
               Col("Identifier", "Text", FALSE)},
     pk   |-> {"id"},
     fks  |-> {}]

\* The user table with username declared nullable=False.
UserTableUsernameRequired ==
    [cols |-> {Col("id", "Integer", FALSE),
               Col("username", "String", FALSE),
               Col("email", "String", TRUE)},
     pk   |-> {"id"},
     fks  |-> {}]

\* op.create_table('user', ...)
UserTable ==
    [cols |-> {Col("id", "Integer", FALSE),
               Col("username", "String", TRUE),
               Col("email", "String", TRUE)},
     pk   |-> {"id"},
     fks  |-> {}]

\* The files table with its foreign key declared without ondelete.
FilesTableNoCascade ==
    [cols |-> {Col("id", "Integer", FALSE),
               Col("Identifier_field", "Integer", TRUE),
               Col("content", "String", FALSE)},
     pk   |-> {"id"},
     fks  |-> {FK("Identifier_field", "identifiers", "id", "NO ACTION")}]

\* The files table without its ForeignKeyConstraint.
FilesTableNoFK ==
    [cols |-> {Col("id", "Integer", FALSE),
               Col("Identifier_field", "Integer", TRUE),
               Col("content", "String", FALSE)},
     pk   |-> {"id"},
     fks  |-> {}]

\* op.create_table('files', ...)
FilesTable ==
    [cols |-> {Col("id", "Integer", FALSE),
               Col("Identifier_field", "Integer", TRUE),
               Col("content", "String", FALSE)},
     pk   |-> {"id"},
     fks  |-> {FK("Identifier_field", "identifiers", "id", "CASCADE")}]

\* The passes table without its ForeignKeyConstraint.
PassesTableNoFK ==
    [cols |-> {Col("id", "Integer", FALSE),
               Col("Identifier_field", "Integer", TRUE),
               Col("transformpass", "Text", FALSE)},
     pk   |-> {"id"},
     fks  |-> {}]

\* op.create_table('passes', ...)
PassesTable ==
    [cols |-> {Col("id", "Integer", FALSE),
               Col("Identifier_field", "Integer", TRUE),
               Col("transformpass", "Text", FALSE)},
     pk   |-> {"id"},
     fks  |-> {FK("Identifier_field", "identifiers", "id", "CASCADE")}]

\* The arguments of the op.create_table call that creates table name.
TableDef(name) ==
    CASE name = "identifiers" -> IdentifiersTable
      [] name = "user" -> UserTable
      [] name = "files" -> FilesTable
      [] name = "passes" -> PassesTable

Index(t, c, u) == [table |-> t, col |-> c, unique |-> u]

\* The index on user.email declared unique=False.
UserEmailIndexNotUnique == Index("user", "email", FALSE)

\* op.create_index(op.f('ix_user_email'), 'user', ['email'], unique=True)
UserEmailIndex == Index("user", "email", TRUE)

\* The arguments of the op.create_index call that creates index name.
IndexDef(name) ==
    CASE name = "ix_identifiers_id" -> Index("identifiers", "id", FALSE)
      [] name = "ix_user_email" -> UserEmailIndex
      [] name = "ix_user_id" -> Index("user", "id", FALSE)
      [] name = "ix_user_username" -> Index("user", "username", TRUE)
      [] name = "ix_files_id" -> Index("files", "id", FALSE)
      [] name = "ix_passes_id" -> Index("passes", "id", FALSE)

Op(o, n) == [op |-> o, name |-> n]

\* upgrade() with files created ahead of identifiers.
UpgradeOpsFilesFirst ==
    << Op("create_table", "files"),
       Op("create_index", "ix_files_id"),
       Op("create_table", "identifiers"),
       Op("create_index", "ix_identifiers_id"),
       Op("create_table", "user"),
       Op("create_index", "ix_user_email"),
       Op("create_index", "ix_user_id"),
       Op("create_index", "ix_user_username"),
       Op("create_table", "passes"),
       Op("create_index", "ix_passes_id") >>

\* upgrade(): its ten operations in program order.
UpgradeOps ==
    << Op("create_table", "identifiers"),
       Op("create_index", "ix_identifiers_id"),
       Op("create_table", "user"),
       Op("create_index", "ix_user_email"),
       Op("create_index", "ix_user_id"),
       Op("create_index", "ix_user_username"),
       Op("create_table", "files"),
       Op("create_index", "ix_files_id"),
       Op("create_table", "passes"),
       Op("create_index", "ix_passes_id") >>

\* downgrade() without its op.drop_table('user').
DowngradeOpsKeepUser ==
    << Op("drop_index", "ix_passes_id"),
       Op("drop_table", "passes"),
       Op("drop_index", "ix_files_id"),
       Op("drop_table", "files"),
       Op("drop_index", "ix_user_username"),
       Op("drop_index", "ix_user_id"),
       Op("drop_index", "ix_user_email"),
       Op("drop_index", "ix_identifiers_id"),
       Op("drop_table", "identifiers") >>

\* downgrade() dropping the user indexes in the order upgrade() creates them.
DowngradeOpsUserIndexesForward ==
    << Op("drop_index", "ix_passes_id"),
       Op("drop_table", "passes"),
       Op("drop_index", "ix_files_id"),
       Op("drop_table", "files"),
       Op("drop_index", "ix_user_email"),
       Op("drop_index", "ix_user_id"),
       Op("drop_index", "ix_user_username"),
       Op("drop_table", "user"),
       Op("drop_index", "ix_identifiers_id"),
       Op("drop_table", "identifiers") >>

\* downgrade(): its ten operations in program order.
DowngradeOps ==
    << Op("drop_index", "ix_passes_id"),
       Op("drop_table", "passes"),
       Op("drop_index", "ix_files_id"),
       Op("drop_table", "files"),
       Op("drop_index", "ix_user_username"),
       Op("drop_index", "ix_user_id"),
       Op("drop_index", "ix_user_email"),
       Op("drop_table", "user"),
       Op("drop_index", "ix_identifiers_id"),
       Op("drop_table", "identifiers") >>

TableNames == {"identifiers", "user", "files", "passes"}

IndexNames == {"ix_identifiers_id", "ix_user_email", "ix_user_id",
               "ix_user_username", "ix_files_id", "ix_passes_id"}

AllObjects == TableNames \cup IndexNames

(* ----------------------------------------------------- the engine: DDL *)

Restrict(f, S) == [x \in S |-> f[x]]

\* The database: catalog and contents.
Db == [tables |-> tables, indexes |-> indexes, rows |-> rows]

\* The names of the tables and indexes that exist.
Schema == DOMAIN tables \cup DOMAIN indexes

\* An engine that creates a table only if it does not exist yet.
CanApplyIfNotExists(o) ==
    CASE o.op = "create_table" -> TRUE
      [] o.op = "create_index" ->
           /\ o.name \notin DOMAIN indexes
           /\ IndexDef(o.name).table \in DOMAIN tables
      [] o.op = "drop_index" ->
           o.name \in DOMAIN indexes
      [] o.op = "drop_table" ->
           o.name \in DOMAIN tables

\* Whether the engine accepts operation o: creating an object that exists, an
\* index on a missing table, a foreign key to a missing table, dropping an
\* object that does not exist or a table another table references, all raise.
CanApply(o) ==
    CASE o.op = "create_table" ->
           /\ o.name \notin DOMAIN tables
           /\ \A fk \in TableDef(o.name).fks :
                  fk.reftable \in DOMAIN tables \cup {o.name}
      [] o.op = "create_index" ->
           /\ o.name \notin DOMAIN indexes
           /\ IndexDef(o.name).table \in DOMAIN tables
      [] o.op = "drop_index" ->
           o.name \in DOMAIN indexes
      [] o.op = "drop_table" ->
           /\ o.name \in DOMAIN tables
           /\ \A t \in DOMAIN tables \ {o.name} :
                  \A fk \in tables[t].fks : fk.reftable # o.name

\* The effect of an accepted operation o on the database.
Apply(o) ==
    CASE o.op = "create_table" ->
           /\ tables' = tables @@ (o.name :> TableDef(o.name))
           /\ rows' = rows @@ (o.name :> {})
           /\ UNCHANGED indexes
      [] o.op = "create_index" ->
           /\ indexes' = indexes @@ (o.name :> IndexDef(o.name))
           /\ UNCHANGED <<tables, rows>>
      [] o.op = "drop_index" ->
           /\ indexes' = Restrict(indexes, DOMAIN indexes \ {o.name})
           /\ UNCHANGED <<tables, rows>>
      [] o.op = "drop_table" ->
           /\ tables' = Restrict(tables, DOMAIN tables \ {o.name})
           /\ rows' = Restrict(rows, DOMAIN rows \ {o.name})
           /\ indexes' = Restrict(indexes,
                  {x \in DOMAIN indexes : indexes[x].table # o.name})

\* No row operation is on record.
NoOp == [op |-> "none", table |-> "none", vals |-> [none |-> Null],
         id |-> Null, result |-> "none", removed |-> 0]

(* ------------------------------------------- upgrade() and downgrade() *)

\* One operation of upgrade(): it is applied, or it raises and upgrade() ends.
UpgradeStep ==
    /\ pc = "upgrade" /\ ~raised /\ i <= Len(UpgradeOps)
    /\ IF CanApply(UpgradeOps[i])
         THEN /\ Apply(UpgradeOps[i])
              /\ i' = i + 1
              /\ createLog' = Append(createLog, UpgradeOps[i].name)
              /\ UNCHANGED raised
         ELSE /\ raised' = TRUE
              /\ UNCHANGED <<tables, indexes, rows, i, createLog>>
    /\ UNCHANGED <<pc, version, outcome, lastRun, saved, origin, txnDDL, dropLog, last>>

\* One operation of downgrade(): it is applied, or it raises and downgrade() ends.
DowngradeStep ==
    /\ pc = "downgrade" /\ ~raised /\ i <= Len(DowngradeOps)
    /\ IF CanApply(DowngradeOps[i])
         THEN /\ Apply(DowngradeOps[i])
              /\ i' = i + 1
              /\ dropLog' = Append(dropLog, DowngradeOps[i].name)
              /\ UNCHANGED raised
         ELSE /\ raised' = TRUE
              /\ UNCHANGED <<tables, indexes, rows, i, dropLog>>
    /\ UNCHANGED <<pc, version, outcome, lastRun, saved, origin, txnDDL, createLog,
                   last>>

(* ------------------------------------------------ the migration runner *)

\* The runner calls upgrade() on a database at base, inside a transaction.
BeginUpgrade ==
    /\ pc = "idle" /\ version = "base"
    /\ pc' = "upgrade" /\ i' = 1 /\ raised' = FALSE
    /\ outcome' = "none" /\ lastRun' = "upgrade"
    /\ saved' = Db
    /\ origin' = Schema
    /\ createLog' = << >>
    /\ last' = NoOp
    /\ UNCHANGED <<tables, indexes, rows, version, txnDDL, dropLog>>

\* The runner calls downgrade() on a database at head, inside a transaction.
BeginDowngrade ==
    /\ pc = "idle" /\ version = "head"
    /\ pc' = "downgrade" /\ i' = 1 /\ raised' = FALSE
    /\ outcome' = "none" /\ lastRun' = "downgrade"
    /\ saved' = Db
    /\ dropLog' = << >>
    /\ last' = NoOp
    /\ UNCHANGED <<tables, indexes, rows, version, origin, txnDDL, createLog>>

\* The function returned: the runner records the new version and commits.
Commit ==
    /\ pc # "idle" /\ ~raised
    /\ i > Len(IF pc = "upgrade" THEN UpgradeOps ELSE DowngradeOps)
    /\ version' = (IF pc = "upgrade" THEN "head" ELSE "base")
    /\ outcome' = "ok"
    /\ pc' = "idle"
    /\ UNCHANGED <<tables, indexes, rows, i, raised, lastRun, saved, origin,
                   txnDDL, createLog, dropLog, last>>

\* The function raised: the run is failed, and the transaction is rolled back,
\* which undoes the DDL issued so far only on an engine with transactional DDL.
Abort ==
    /\ pc # "idle" /\ raised
    /\ outcome' = "failed"
    /\ pc' = "idle"
    /\ raised' = FALSE
    /\ IF txnDDL
         THEN /\ tables' = saved.tables
              /\ indexes' = saved.indexes
              /\ rows' = saved.rows
         ELSE UNCHANGED <<tables, indexes, rows>>
    /\ UNCHANGED <<i, version, lastRun, saved, origin, txnDDL, createLog, dropLog,
                   last>>

(* ------------------------------------------- the engine: row operations *)

\* Row operations are issued by the application, on a database at head.
Serving == pc = "idle" /\ version = "head"

\* Every NOT NULL column outside the primary key (which the engine assigns)
\* is given a value.
NotNullOk(t, vals) ==
    \A c \in tables[t].cols :
        (~c.nullable /\ c.name \notin tables[t].pk) => vals[c.name] # Null

\* No unique index on t holds the non-null value the new row has in its column.
UniqueOk(t, vals) ==
    \A x \in DOMAIN indexes :
        (indexes[x].table = t /\ indexes[x].unique /\ indexes[x].col # "id") =>
            \/ vals[indexes[x].col] = Null
            \/ \A r \in rows[t] : r[indexes[x].col] # vals[indexes[x].col]

\* Every foreign key of t is null or names an existing row of its target.
FKOk(t, vals) ==
    \A fk \in tables[t].fks :
        \/ vals[fk.col] = Null
        \/ /\ fk.reftable \in DOMAIN tables
           /\ \E p \in rows[fk.reftable] : Some(p[fk.refcol]) = vals[fk.col]

\* The engine's answer to INSERT INTO t of a row with the values vals.
InsertResult(t, vals) ==
    IF ~NotNullOk(t, vals) THEN "NotNullViolation"
    ELSE IF ~UniqueOk(t, vals) THEN "UniqueViolation"
    ELSE IF ~FKOk(t, vals) THEN "ReferentialViolation"
    ELSE "ok"

\* INSERT INTO t: a refused row changes nothing; an accepted one is stored
\* under a primary key the engine assigns, unused in t (ids bounded by max).
Insert(t, vals, max) ==
    /\ Serving /\ t \in DOMAIN tables
    /\ IF InsertResult(t, vals) # "ok"
         THEN /\ last' = [op |-> "insert", table |-> t, vals |-> vals,
                          id |-> Null, result |-> InsertResult(t, vals),
                          removed |-> 0]
              /\ UNCHANGED rows
         ELSE \E id \in (1..max) \ {r.id : r \in rows[t]} :
                /\ rows' = [rows EXCEPT ![t] = @ \cup {[id |-> id] @@ vals}]
                /\ last' = [op |-> "insert", table |-> t, vals |-> vals,
                            id |-> Some(id), result |-> "ok", removed |-> 0]
    /\ UNCHANGED <<tables, indexes, pc, i, raised, version, outcome, lastRun,
                   saved, origin, txnDDL, createLog, dropLog>>

\* The rows of table c that reference row r of table t through foreign key fk.
Referencing(c, fk, t, r) ==
    IF fk.reftable = t
      THEN {q \in rows[c] : q[fk.col] = Some(r[fk.refcol])}
      ELSE {}

\* A foreign key without ON DELETE CASCADE whose rows reference r blocks the delete.
DeleteBlocked(t, r) ==
    \E c \in DOMAIN tables : \E fk \in tables[c].fks :
        fk.ondelete # "CASCADE" /\ Referencing(c, fk, t, r) # {}

\* The rows the delete of r removes from table c: r itself and, through the
\* ON DELETE CASCADE foreign keys, the rows of c that reference r.
Removed(c, t, r) ==
    (IF c = t THEN {r} ELSE {}) \cup
    UNION {Referencing(c, fk, t, r) :
              fk \in {f \in tables[c].fks : f.ondelete = "CASCADE"}}

\* DELETE FROM t WHERE id = k, for a row that exists.
Delete(t, k) ==
    /\ Serving /\ t \in DOMAIN tables
    /\ \E r \in rows[t] :
         /\ r.id = k
         /\ IF DeleteBlocked(t, r)
              THEN /\ last' = [op |-> "delete", table |-> t,
                               vals |-> [none |-> Null], id |-> Some(k),
                               result |-> "ReferentialViolation", removed |-> 0]
                   /\ UNCHANGED rows
              ELSE /\ rows' = [c \in DOMAIN rows |-> rows[c] \ Removed(c, t, r)]
                   /\ last' = [op |-> "delete", table |-> t,
                               vals |-> [none |-> Null], id |-> Some(k),
                               result |-> "ok",
                               removed |-> Cardinality(UNION
                                   {Removed(c, t, r) : c \in DOMAIN rows})]
    /\ UNCHANGED <<tables, indexes, pc, i, raised, version, outcome, lastRun,
                   saved, origin, txnDDL, createLog, dropLog>>

InsertIdentifier ==
    \E text \in Nullable(Texts) :
        Insert("identifiers", [Identifier |-> text], MaxIdent)

InsertFile ==
    \E ref \in Nullable(1..MaxIdent), content \in Nullable(Texts) :
        Insert("files", [Identifier_field |-> ref, content |-> content], MaxChild)

InsertPass ==
    \E ref \in Nullable(1..MaxIdent), pass \in Nullable(Texts) :
        Insert("passes", [Identifier_field |-> ref, transformpass |-> pass], MaxChild)

InsertUser ==
    \E username \in Nullable(Names), email \in Nullable(Names) :
        Insert("user", [username |-> username, email |-> email], MaxUser)

DeleteIdentifier == \E k \in 1..MaxIdent : Delete("identifiers", k)

DeleteFile == \E k \in 1..MaxChild : Delete("files", k)

DeletePass == \E k \in 1..MaxChild : Delete("passes", k)

DeleteUser == \E k \in 1..MaxUser : Delete("user", k)

(* ----------------------------------------------------- specifications *)

\* The database before the first run: any of the ten objects may already
\* exist (left by an earlier run), with no rows in them.
Init ==
    /\ \E pre \in SUBSET AllObjects :
          /\ tables = [n \in pre \cap TableNames |-> TableDef(n)]
          /\ indexes = [n \in pre \cap IndexNames |-> IndexDef(n)]
          /\ rows = [n \in pre \cap TableNames |-> {}]
          /\ saved = [tables  |-> [n \in pre \cap TableNames |-> TableDef(n)],
                      indexes |-> [n \in pre \cap IndexNames |-> IndexDef(n)],
                      rows    |-> [n \in pre \cap TableNames |-> {}]]
          /\ origin = pre
    /\ txnDDL \in BOOLEAN
    /\ pc = "idle" /\ i = 1 /\ raised = FALSE
    /\ version = "base" /\ outcome = "none" /\ lastRun = "none"
    /\ createLog = << >> /\ dropLog = << >>
    /\ last = NoOp

Migrate ==
    \/ BeginUpgrade
    \/ UpgradeStep
    \/ BeginDowngrade
    \/ DowngradeStep
    \/ Commit
    \/ Abort

Spec == Init /\ [][Migrate]_vars

\* The migration, and the application's operations on identifiers, files and passes.
NextRefs ==
    \/ Migrate
    \/ InsertIdentifier
    \/ InsertFile
    \/ InsertPass
    \/ DeleteIdentifier
    \/ DeleteFile
    \/ DeletePass

SpecRefs == Init /\ [][NextRefs]_vars

\* The migration, and the application's operations on user.
NextUser ==
    \/ Migrate
    \/ InsertUser
    \/ DeleteUser

SpecUser == Init /\ [][NextUser]_vars

(* --------------------------------------------------------------- claims *)

\* The rows of table t, none if t does not exist.
Rows(t) == IF t \in DOMAIN rows THEN rows[t] ELSE {}

\* The ids of the identifiers rows.
Idents == {r.id : r \in Rows("identifiers")}

\* The last run the runner made is run, and it has ended.
Ended(run) == pc = "idle" /\ lastRun = run /\ outcome # "none"

\* a occurs in log ahead of an occurrence of b.
Before(log, a, b) ==
    \E j \in 1..Len(log) : \E k \in 1..Len(log) :
        j < k /\ log[j] = a /\ log[k] = b

Reverse(log) == [j \in 1..Len(log) |-> log[Len(log) + 1 - j]]

\* C1: a database that held none of the four tables and six indexes when
\* upgrade() began holds none of them once the downgrade() that follows the
\* upgrade has completed: the tables and the indexes are those it began with.
RoundTrip ==
    (Ended("downgrade") /\ outcome = "ok" /\ origin = {}) =>
        /\ DOMAIN tables = origin \cap TableNames
        /\ DOMAIN indexes = origin \cap IndexNames

\* C1 witness: upgrade() created all ten objects from an empty database and
\* downgrade() has completed after it.
RoundTripDone ==
    /\ Ended("downgrade") /\ outcome = "ok" /\ origin = {}
    /\ Len(createLog) = 10 /\ Len(dropLog) = 10 /\ Schema = {}

\* C2: the delete of an existing identifiers row k succeeds and, in the same
\* step, leaves no identifiers row k and no files or passes row whose
\* Identifier_field is k.
CascadeDelete ==
    [][\A k \in 1..MaxIdent :
          (/\ Serving /\ k \in Idents
           /\ last'.op = "delete" /\ last'.table = "identifiers"
           /\ last'.id = Some(k))
          => /\ last'.result = "ok"
             /\ k \notin Idents'
             /\ \A c \in {"files", "passes"} :
                    \A q \in rows'[c] : q.Identifier_field # Some(k)]_vars

\* C2 witness: a delete of an identifiers row took a files row and a passes
\* row with it.
CascadeDeleteDone ==
    /\ last.op = "delete" /\ last.table = "identifiers" /\ last.result = "ok"
    /\ last.removed >= 3

\* C3: in every state, each files row and each passes row has a null
\* Identifier_field or one equal to the id of an existing identifiers row.
ReferentialIntegrity ==
    \A c \in {"files", "passes"} : \A q \in Rows(c) :
        q.Identifier_field = Null \/ \E k \in Idents : q.Identifier_field = Some(k)

\* C3 witness: after a delete of an identifiers row, a files row still
\* references another identifiers row and a passes row references none.
ReferentialIntegrityAfterDelete ==
    /\ last.op = "delete" /\ last.table = "identifiers" /\ last.result = "ok"
    /\ \E q \in Rows("files") : q.Identifier_field # Null
    /\ \E q \in Rows("passes") : q.Identifier_field = Null

UserUnique ==
    \A r1 \in Rows("user") : \A r2 \in Rows("user") :
        r1 # r2 =>
            /\ r1.username = Null \/ r1.username # r2.username
            /\ r1.email = Null \/ r1.email # r2.email

\* C5: no two distinct user rows share a non-null username or a non-null
\* email, and an insert that repeats an existing non-null username or email
\* is refused with a uniqueness violation and leaves the user table as it was.
UserUniqueness ==
    /\ []UserUnique
    /\ [][(/\ Serving
           /\ last'.op = "insert" /\ last'.table = "user"
           /\ \E r \in rows["user"] :
                 \/ last'.vals.username # Null /\ r.username = last'.vals.username
                 \/ last'.vals.email # Null /\ r.email = last'.vals.email)
          => /\ last'.result = "UniqueViolation"
             /\ rows' = rows]_vars

\* C5 witness: with two user rows stored, an insert with a null username was
\* refused for its email alone.
DuplicateEmailRefused ==
    /\ last.op = "insert" /\ last.table = "user"
    /\ last.result = "UniqueViolation"
    /\ last.vals.username = Null /\ last.vals.email # Null
    /\ Cardinality(Rows("user")) = 2

\* C6: an insert of a user row with username and email both null succeeds,
\* whatever the table holds: exactly the new row is added.
NullUserInsert ==
    [][(/\ Serving
        /\ last'.op = "insert" /\ last'.table = "user"
        /\ last'.vals.username = Null /\ last'.vals.email = Null)
       => /\ last'.result = "ok"
          /\ \E id \in (1..MaxUser) \ {r.id : r \in rows["user"]} :
                rows' = [rows EXCEPT !["user"] =
                            @ \cup {[id |-> id, username |-> Null, email |-> Null]}]]_vars

\* C6 witness: a user row with null username and email was inserted beside
\* another such row.
NullUserInserted ==
    /\ last.op = "insert" /\ last.table = "user" /\ last.result = "ok"
    /\ last.vals.username = Null /\ last.vals.email = Null
    /\ Cardinality({r \in Rows("user") : r.username = Null /\ r.email = Null}) = 2

\* A column as the layout states it: its name and whether it may be null.
Shape(t) == {<<c.name, c.nullable>> : c \in tables[t].cols}

\* The catalog holds the four tables with the columns of the documented
\* layout, where text, ref and pass are the names of the identifiers text
\* column, of the files and passes foreign-key column and of the passes text
\* column.
LayoutIs(text, ref, pass) ==
    /\ DOMAIN tables = TableNames
    /\ Shape("identifiers") = {<<"id", FALSE>>, <<text, FALSE>>}
    /\ Shape("user") = {<<"id", FALSE>>, <<"username", TRUE>>, <<"email", TRUE>>}
    /\ Shape("files") = {<<"id", FALSE>>, <<ref, TRUE>>, <<"content", FALSE>>}
    /\ Shape("passes") = {<<"id", FALSE>>, <<ref, TRUE>>, <<pass, FALSE>>}
    /\ tables["identifiers"].fks = {}
    /\ tables["user"].fks = {}
    /\ tables["files"].fks = {FK(ref, "identifiers", "id", "CASCADE")}
    /\ tables["passes"].fks = {FK(ref, "identifiers", "id", "CASCADE")}

\* C7 as stated: after upgrade() the columns are named identifier_text,
\* identifier_ref and transform_pass.
LayoutAsDocumented ==
    Serving => LayoutIs("identifier_text", "identifier_ref", "transform_pass")

\* C7 as amended: after upgrade() the layout is the documented one with the
\* columns named Identifier (identifiers), Identifier_field (files, passes)
\* and transformpass (passes).
LayoutAsCreated ==
    Serving => LayoutIs("Identifier", "Identifier_field", "transformpass")

\* C7 witness: upgrade() has completed.
UpgradeDone ==
    Ended("upgrade") /\ outcome = "ok" /\ version = "head" /\ Len(createLog) = 10

\* C8 as stated: an upgrade() begun with any of the ten objects present ends
\* failed, with the database as it was when it began.
AtomicFailure ==
    (Ended("upgrade") /\ origin # {}) => (outcome = "failed" /\ Db = saved)

\* C8 as amended: an upgrade() begun with any of the ten objects present ends
\* failed, and on an engine with transactional DDL the database is as it was
\* when it began.
AtomicFailureTransactional ==
    (Ended("upgrade") /\ origin # {}) =>
        (outcome = "failed" /\ (txnDDL => Db = saved))

\* C8 witness: on an engine with transactional DDL, upgrade() failed on its
\* last operation after nine creations and the database is as it began.
LateConflictRolledBack ==
    /\ Ended("upgrade") /\ outcome = "failed" /\ txnDDL
    /\ Len(createLog) = 9 /\ Schema = {"ix_passes_id"} /\ Db = saved

\* C9: in every state of an upgrade() begun on an empty database and of the
\* downgrade() that follows it, files or passes exists only if identifiers
\* does; upgrade() creates identifiers ahead of files and passes, and
\* downgrade() drops it after both.
ForeignKeyTargetOrder ==
    origin = {} =>
        /\ (DOMAIN tables \cap {"files", "passes"} # {}) =>
              "identifiers" \in DOMAIN tables
        /\ Ended("upgrade") =>
              /\ Before(createLog, "identifiers", "files")
              /\ Before(createLog, "identifiers", "passes")
        /\ Ended("downgrade") =>
              /\ Before(dropLog, "files", "identifiers")
              /\ Before(dropLog, "passes", "identifiers")

\* C9 witness: downgrade() has dropped passes and files, and identifiers
\* still exists.
ChildrenDroppedFirst ==
    /\ pc = "downgrade" /\ origin = {}
    /\ DOMAIN tables \cap {"files", "passes"} = {}
    /\ "identifiers" \in DOMAIN tables

\* C10: the objects downgrade() dropped, read backwards, are the objects
\* upgrade() created, in order; and in no state of these runs does an index
\* exist without its table.
ExactReverseOrder ==
    origin = {} =>
        /\ (Ended("downgrade") /\ outcome = "ok") => Reverse(dropLog) = createLog
        /\ \A x \in DOMAIN indexes : indexes[x].table \in DOMAIN tables

\* C10 witness: downgrade() has completed its ten drops, the first of them
\* the index upgrade() created last.
AllDroppedInReverse ==
    /\ Ended("downgrade") /\ outcome = "ok" /\ origin = {}
    /\ Len(dropLog) = 10
    /\ dropLog[1] = "ix_passes_id" /\ createLog[10] = "ix_passes_id"

====
